---- MODULE Spec2Model ----
(***************************************************************************)
(* A model of translations/utils.py: the language normalizer, the          *)
(* relations hierarchy builder, the instance-groups walker, the            *)
(* translation query, apply_translations, update_translations and the      *)
(* TranslationContext session.                                             *)
(*                                                                         *)
(* Strings that the code splits (language codes, relation lookups) are     *)
(* sequences of symbols; the symbol "__" stands for LOOKUP_SEP and "-" for *)
(* the accent separator of a language code.                                *)
(***************************************************************************)
EXTENDS Integers, Sequences, FiniteSets, Bags, TLC

VARIABLES
    languages,    \* settings.LANGUAGES: the ordered language codes
    vals,         \* the attribute values of the in-memory model instances
    prefetched,   \* the (instance, relation) pairs in _prefetched_objects_cache
    store,        \* the rows of the Translation table (a bag of rows)
    ctxs,         \* the TranslationContext objects
    last,         \* the most recent call: its arguments and its outcome
    steps         \* the number of calls made so far

vars == <<languages, vals, prefetched, store, ctxs, last, steps>>

----------------------------------------------------------------------------
(* Bounds of the model *)

MaxSteps == 2
MaxSessionSteps == 3
MaxTagLen == 2
MaxLanguages == 2
MaxPaths == 2
MaxWalkSteps == 1
MaxContextSteps == 3

----------------------------------------------------------------------------
(* str.split *)

RECURSIVE Split(_, _)
Split(s, sep) ==
    IF \A i \in 1..Len(s) : s[i] # sep
    THEN <<s>>
    ELSE LET i == CHOOSE k \in 1..Len(s) :
                      s[k] = sep /\ \A j \in 1..(k - 1) : s[j] # sep
         IN  <<SubSeq(s, 1, i - 1)>> \o Split(SubSeq(s, i + 1, Len(s)), sep)

----------------------------------------------------------------------------
(* Language codes *)

None == <<"None">>
EN == <<"e", "n">>
EN_GB == <<"e", "n", "-", "g", "b">>
DE == <<"d", "e">>
DE_AT == <<"d", "e", "-", "a", "t">>
FR == <<"f", "r">>

\* settings.LANGUAGES of the documentation, without the display names
LANGUAGES == <<EN, EN_GB, DE>>

\* django.utils.translation.get_language(): the active language
get_language == EN

\* the loop, were it to break as soon as the base code is found
RECURSIVE ScanLanguages_break(_, _, _, _, _)
ScanLanguages_break(langs, lang, code, i, code_exists) ==
    IF i > Len(langs)
    THEN [lang_exists |-> FALSE, code_exists |-> code_exists]
    ELSE IF lang = langs[i]
         THEN [lang_exists |-> TRUE, code_exists |-> code_exists]
         ELSE IF code = langs[i]
              THEN [lang_exists |-> FALSE, code_exists |-> TRUE]
              ELSE ScanLanguages_break(langs, lang, code, i + 1, code_exists)

\* the loop of _get_standard_language, from position i on
RECURSIVE ScanLanguages(_, _, _, _, _)
ScanLanguages(langs, lang, code, i, code_exists) ==
    IF i > Len(langs)
    THEN [lang_exists |-> FALSE, code_exists |-> code_exists]
    ELSE IF lang = langs[i]
         THEN [lang_exists |-> TRUE, code_exists |-> code_exists]
         ELSE ScanLanguages(langs, lang, code, i + 1,
                            code_exists \/ code = langs[i])

\* _get_standard_language(lang) under the setting langs
StandardLanguage(langs, lang_arg) ==
    LET lang == IF lang_arg # None /\ lang_arg # <<>> THEN lang_arg
                ELSE get_language
        code == Split(lang, "-")[1]
        scan == ScanLanguages(langs, lang, code, 1, FALSE)
    IN  IF scan.lang_exists
        THEN [err |-> "none", value |-> lang]
        ELSE IF scan.code_exists
             THEN [err |-> "none", value |-> code]
             ELSE [err |-> "ValueError", value |-> lang]

_get_standard_language(lang_arg) == StandardLanguage(languages, lang_arg)

----------------------------------------------------------------------------
(* The relations hierarchy: an insertion-ordered dict, kept as the         *)
(* sequence of its items [name, included, relations].                      *)

LOOKUP_SEP == "__"

HasKey(hierarchy, name) == \E i \in 1..Len(hierarchy) : hierarchy[i].name = name

KeyIndex(hierarchy, name) ==
    CHOOSE i \in 1..Len(hierarchy) : hierarchy[i].name = name

RECURSIVE _fill_hierarchy(_, _)

\* the step, were it to assign a fresh node where setdefault keeps the node
\* the dictionary holds
_fill_hierarchy_assign(hierarchy, relation_parts) ==
    LET root == Head(relation_parts)
        nest == Tail(relation_parts)
        fresh == [name |-> root, included |-> FALSE, relations |-> <<>>]
        h1 == IF HasKey(hierarchy, root)
              THEN [hierarchy EXCEPT ![KeyIndex(hierarchy, root)] = fresh]
              ELSE Append(hierarchy, fresh)
        i == KeyIndex(h1, root)
    IN  IF nest # <<>>
        THEN [h1 EXCEPT ![i].relations = _fill_hierarchy(@, nest)]
        ELSE [h1 EXCEPT ![i].included = TRUE]

\* hierarchy.setdefault(root, ...) and the descent into nest
_fill_hierarchy(hierarchy, relation_parts) ==
    LET root == Head(relation_parts)
        nest == Tail(relation_parts)
        h1 == IF HasKey(hierarchy, root) THEN hierarchy
              ELSE Append(hierarchy, [name |-> root, included |-> FALSE,
                                      relations |-> <<>>])
        i == KeyIndex(h1, root)
    IN  IF nest # <<>>
        THEN [h1 EXCEPT ![i].relations = _fill_hierarchy(@, nest)]
        ELSE [h1 EXCEPT ![i].included = TRUE]

RECURSIVE FillRelations(_, _, _)
FillRelations(hierarchy, relations, i) ==
    IF i > Len(relations) THEN hierarchy
    ELSE FillRelations(
             _fill_hierarchy(hierarchy, Split(relations[i], LOOKUP_SEP)),
             relations, i + 1)

_get_relations_hierarchy(relations) == FillRelations(<<>>, relations, 1)

----------------------------------------------------------------------------
(* The models and the in-memory instances *)

\* the model classes; A and B subclass Translatable, N does not
Models == {"A", "B", "N"}
NoModel == "NoModel"

\* issubclass(model, Translatable)
IsTranslatable(model) == model \in {"A", "B"}

\* ContentType.objects.get_for_model(model).id
ContentTypeId(model) == IF model = "A" THEN 7 ELSE IF model = "B" THEN 8 ELSE 9

\* the attributes of an instance the calls read and write
Fields == {"name", "slug"}

\* model._get_translatable_fields_names()
_get_translatable_fields_names(model) ==
    IF IsTranslatable(model) THEN {"name"} ELSE {}

\* the values of a text attribute
Texts == {"", "x", "y"}

\* relation names: A.c is a reverse foreign key (a manager), B.p the
\* foreign key to A, A.n a nullable foreign key to N; no model has x
C == <<"c">>
P == <<"p">>
N == <<"n">>
X == <<"x">>

\* the fields model._meta.get_field finds
ModelFieldNames(model) ==
    IF model = "A" THEN {C, N} ELSE IF model = "B" THEN {P} ELSE {}

\* The instances in memory.  a1 was fetched with its relation c
\* prefetched (b1, whose p is a1 itself); a2 was fetched with c prefetched
\* and has no related rows; b1s was fetched alone, its p is the instance
\* a1d of row A 1, whose c is not prefetched; b1d is the instance that
\* loading a1d.c creates; n1 is the instance a1.n and a1d.n yield, a2.n is
\* None.
Objects == {"a1", "a1d", "a2", "b1", "b1d", "b1s", "n1"}

ObjModel == [a1 |-> "A", a1d |-> "A", a2 |-> "A",
             b1 |-> "B", b1d |-> "B", b1s |-> "B", n1 |-> "N"]

ObjId == [a1 |-> 1, a1d |-> 1, a2 |-> 2, b1 |-> 1, b1d |-> 1, b1s |-> 1,
          n1 |-> 1]

\* the instances value.all() yields once the relation is loaded
RelatedObjects == [a1 |-> <<"b1">>, a1d |-> <<"b1d">>, a2 |-> <<>>]

\* the instance the foreign key of an instance yields
RelatedObject == [b1 |-> "a1", b1d |-> "a1d", b1s |-> "a1d",
                  a1 |-> "n1", a1d |-> "n1"]

\* the instances that exist only once a relation has been loaded
LoadedBy == [b1d |-> <<"a1d", C>>]

Exists(pf, o) == o \in DOMAIN LoadedBy => LoadedBy[o] \in pf

\* getattr(obj, relation); an object that is no model instance has none of
\* the attributes
GetAttr(obj, relation) ==
    IF obj \notin Objects
    THEN [kind |-> "AttributeError", items |-> <<>>]
    ELSE IF ObjModel[obj] = "A" /\ relation = C
    THEN [kind |-> "manager", items |-> RelatedObjects[obj]]
    ELSE IF (ObjModel[obj] = "B" /\ relation = P)
            \/ (ObjModel[obj] = "A" /\ relation = N)
         THEN IF obj \in DOMAIN RelatedObject
              THEN [kind |-> "model", items |-> <<RelatedObject[obj]>>]
              ELSE [kind |-> "None", items |-> <<>>]
         ELSE [kind |-> "AttributeError", items |-> <<>>]

\* an entity argument: a model instance, an iterable, or an object that
\* is neither
Instance(o) == [kind |-> "model", items |-> <<o>>]
Iterable(os) == [kind |-> "iterable", items |-> os]
Other == [kind |-> "other", items |-> <<>>]

_get_entity_details(entity) ==
    IF entity.kind = "model"
    THEN [err |-> "none", iterable |-> FALSE,
          model |-> ObjModel[entity.items[1]]]
    ELSE IF entity.kind = "iterable"
         THEN IF Len(entity.items) > 0
              THEN IF entity.items[1] \in Objects
                   THEN [err |-> "none", iterable |-> TRUE,
                         model |-> ObjModel[entity.items[1]]]
                   ELSE [err |-> "TypeError", iterable |-> TRUE,
                         model |-> NoModel]
              ELSE [err |-> "none", iterable |-> TRUE, model |-> NoModel]
         ELSE [err |-> "TypeError", iterable |-> FALSE, model |-> NoModel]

----------------------------------------------------------------------------
(* _get_instance_groups.  The walk threads st = [groups, err, prefetched,  *)
(* visits]: the groups built so far, the exception raised (if any), the    *)
(* prefetch caches after the lazy loads so far, and the log of the         *)
(* insertions into groups in the order they were made.                     *)

\* the insertion, were it object_groups.setdefault(str(obj.id), obj)
SetItem_first(groups, ct, obj) ==
    [groups EXCEPT ![ct] = @ @@ (ToString(ObjId[obj]) :> obj)]

\* object_groups[str(obj.id)] = obj
SetItem(groups, ct, obj) ==
    [groups EXCEPT ![ct] = (ToString(ObjId[obj]) :> obj) @@ @]

\* The walk also records the call stack: path holds the relations the
\* calls of _fill_entity in progress were entered through, and calls the
\* path of every call of _fill_entity made.
Descend(st, relation) == [st EXCEPT !.path = Append(@, relation)]
Return(st, returned) == [returned EXCEPT !.path = st.path]
Enter(st) == [st EXCEPT !.calls = Append(@, st.path)]

\* the load, were it to leave the cache of the instance as it was
Prefetch_none(st, obj, relation) == st

\* prefetch_related_objects([obj], relation)
Prefetch(st, obj, relation) ==
    [st EXCEPT !.prefetched = @ \cup {<<obj, relation>>}]

RECURSIVE _fill_entity(_, _, _, _, _)
RECURSIVE FillObjs(_, _, _, _, _, _, _)
RECURSIVE FillRels(_, _, _, _, _, _)

\* the iteration, were it to load the relation whatever prefetch_mandatory
FillRel_lazy(st, obj, model, detail, prefetch_mandatory) ==
    LET relation == detail.name
        value == GetAttr(obj, relation)
    IN  IF value.kind = "AttributeError"
        THEN IF relation \in ModelFieldNames(model) THEN st
             ELSE [st EXCEPT !.err = "FieldDoesNotExist"]
        ELSE IF value.kind = "None" THEN st
        ELSE IF value.kind = "manager"
             THEN Return(st, _fill_entity(
                      Descend(Prefetch(st, obj, relation), relation),
                      Iterable(value.items), detail.relations,
                      detail.included, prefetch_mandatory))
             ELSE Return(st, _fill_entity(
                      Descend(st, relation), Instance(value.items[1]),
                      detail.relations, detail.included,
                      prefetch_mandatory))

\* one iteration of `for (relation, detail) in hierarchy.items()`
FillRel(st, obj, model, detail, prefetch_mandatory) ==
    LET relation == detail.name
        value == GetAttr(obj, relation)
    IN  IF value.kind = "AttributeError"
        THEN IF relation \in ModelFieldNames(model) THEN st
             ELSE [st EXCEPT !.err = "FieldDoesNotExist"]
        ELSE IF value.kind = "None" THEN st
        ELSE IF value.kind = "manager"
             THEN IF <<obj, relation>> \notin st.prefetched
                  THEN IF prefetch_mandatory
                       THEN [st EXCEPT !.err = "RuntimeError"]
                       ELSE Return(st, _fill_entity(
                                Descend(Prefetch(st, obj, relation), relation),
                                Iterable(value.items), detail.relations,
                                detail.included, prefetch_mandatory))
                  ELSE Return(st, _fill_entity(
                           Descend(st, relation), Iterable(value.items),
                           detail.relations, detail.included,
                           prefetch_mandatory))
             ELSE Return(st, _fill_entity(
                      Descend(st, relation), Instance(value.items[1]),
                      detail.relations, detail.included,
                      prefetch_mandatory))

FillRels(st, obj, model, hierarchy, i, prefetch_mandatory) ==
    IF st.err # "none" \/ i > Len(hierarchy) THEN st
    ELSE FillRels(FillRel(st, obj, model, hierarchy[i], prefetch_mandatory),
                  obj, model, hierarchy, i + 1, prefetch_mandatory)

\* the visit, were it to insert the object whatever included
_fill_obj_always(st, obj, model, hierarchy, included, prefetch_mandatory) ==
    LET ct == ContentTypeId(model)
        st1 == IF obj \notin Objects
               THEN [st EXCEPT !.err = "AttributeError"]
               ELSE [st EXCEPT
                        !.groups = SetItem(IF ct \in DOMAIN @ THEN @
                                           ELSE @ @@ (ct :> <<>>), ct, obj),
                        !.visits = Append(@, [content_type_id |-> ct,
                                               object_id |-> ToString(ObjId[obj]),
                                               obj |-> obj])]
    IN  FillRels(st1, obj, model, hierarchy, 1, prefetch_mandatory)

\* _fill_obj(obj)
_fill_obj(st, obj, model, hierarchy, included, prefetch_mandatory) ==
    LET st1 == IF included
               THEN IF obj \notin Objects
                    THEN [st EXCEPT !.err = "AttributeError"]
                    ELSE
                    [st EXCEPT
                        !.groups = SetItem(@, ContentTypeId(model), obj),
                        !.visits = Append(@, [content_type_id |-> ContentTypeId(model),
                                               object_id |-> ToString(ObjId[obj]),
                                               obj |-> obj])]
               ELSE st
    IN  FillRels(st1, obj, model, hierarchy, 1, prefetch_mandatory)

FillObjs(st, objs, i, model, hierarchy, included, prefetch_mandatory) ==
    IF st.err # "none" \/ i > Len(objs) THEN st
    ELSE FillObjs(_fill_obj(st, objs[i], model, hierarchy, included,
                            prefetch_mandatory),
                  objs, i + 1, model, hierarchy, included,
                  prefetch_mandatory)

\* the level, were it to skip the entity of a model that is not
\* Translatable
_fill_entity_skip(st, entity, hierarchy, included, prefetch_mandatory) ==
    LET st0 == Enter(st)
        details == _get_entity_details(entity)
        model == details.model
        ct == ContentTypeId(model)
        st1 == IF included /\ ct \notin DOMAIN st0.groups
               THEN [st0 EXCEPT !.groups = @ @@ (ct :> <<>>)]
               ELSE st0
    IN  IF details.err # "none" THEN [st0 EXCEPT !.err = details.err]
        ELSE IF model = NoModel THEN st0
        ELSE IF included /\ ~IsTranslatable(model) THEN st0
             ELSE FillObjs(st1, entity.items, 1, model, hierarchy, included,
                           prefetch_mandatory)

\* _fill_entity(entity, hierarchy, included)
_fill_entity(st, entity, hierarchy, included, prefetch_mandatory) ==
    LET st0 == Enter(st)
        details == _get_entity_details(entity)
        model == details.model
        ct == ContentTypeId(model)
        st1 == IF included /\ ct \notin DOMAIN st0.groups
               THEN [st0 EXCEPT !.groups = @ @@ (ct :> <<>>)]
               ELSE st0
    IN  IF details.err # "none" THEN [st0 EXCEPT !.err = details.err]
        ELSE IF model = NoModel THEN st0
        ELSE IF included /\ ~IsTranslatable(model)
             THEN [st1 EXCEPT !.err = "TypeError"]
             ELSE FillObjs(st1, entity.items, 1, model, hierarchy, included,
                           prefetch_mandatory)

\* the walk, were it to follow the relation c of every root instance
\* whatever the hierarchy
_get_instance_groups_c(pf, entity, hierarchy, prefetch_mandatory) ==
    _fill_entity([groups |-> <<>>, err |-> "none", prefetched |-> pf,
                  visits |-> <<>>, path |-> <<>>, calls |-> <<>>],
                 entity,
                 IF HasKey(hierarchy, C) THEN hierarchy
                 ELSE Append(hierarchy, [name |-> C, included |-> FALSE,
                                         relations |-> <<>>]),
                 TRUE, prefetch_mandatory)

\* _get_instance_groups(entity, hierarchy, prefetch_mandatory) with the
\* prefetch caches pf
_get_instance_groups(pf, entity, hierarchy, prefetch_mandatory) ==
    _fill_entity([groups |-> <<>>, err |-> "none", prefetched |-> pf,
                  visits |-> <<>>, path |-> <<>>, calls |-> <<>>],
                 entity, hierarchy, TRUE, prefetch_mandatory)

\* the (content type id, object id) pairs of some instance groups
Keys(groups) ==
    UNION {{<<ct, id>> : id \in DOMAIN groups[ct]} : ct \in DOMAIN groups}

----------------------------------------------------------------------------
(* The Translation table and _get_translations *)

Row(ct, id, field, lang, text) ==
    [content_type_id |-> ct, object_id |-> id, field |-> field,
     language |-> lang, text |-> text]

\* the natural key of a row
NaturalKey(r) == <<r.content_type_id, r.object_id, r.field, r.language>>

\* The filter _get_translations builds: Q() or-ed with one
\* Q(content_type__id, object_id) per instance; filter(Q()) adds no
\* condition, so that the empty groups select on the language alone.
Filters(groups) == Keys(groups)

Matches(filters, lang, r) ==
    /\ r.language = lang
    /\ filters = {} \/ <<r.content_type_id, r.object_id>> \in filters

\* the rows the queryset of _get_translations yields when evaluated on tbl
Select(tbl, groups, lang) ==
    {r \in BagToSet(tbl) : Matches(Filters(groups), lang, r)}

\* the delete, were it to delete nothing
Delete_none(tbl, groups, lang) == tbl

\* queryset.delete() on tbl
Delete(tbl, groups, lang) ==
    LET keep == {r \in BagToSet(tbl) : ~Matches(Filters(groups), lang, r)}
    IN  [r \in keep |-> tbl[r]]

\* Translation.objects.bulk_create(rows) on tbl
BulkCreate(tbl, rows) == tbl (+) SetToBag(rows)

----------------------------------------------------------------------------
(* The loop of apply_translations and of TranslationContext.apply *)

\* the texts, were the field not looked up in the translatable fields
Candidates_any(groups, recs, obj, field) ==
    {r.text : r \in {q \in recs :
        /\ <<q.content_type_id, q.object_id>> \in Keys(groups)
        /\ groups[q.content_type_id][q.object_id] = obj
        /\ q.field = field}}

\* the texts the rows of recs set the attribute field of obj to
Candidates(groups, recs, obj, field) ==
    {r.text : r \in {q \in recs :
        /\ <<q.content_type_id, q.object_id>> \in Keys(groups)
        /\ groups[q.content_type_id][q.object_id] = obj
        /\ q.field = field
        /\ field \in _get_translatable_fields_names(ObjModel[obj])}}

\* The attribute values the loop can leave when it has processed recs: the
\* queryset is unordered, and of several rows that set the same attribute
\* the one iterated last wins.
Overlays(v, groups, recs) ==
    LET cands(k) == Candidates(groups, recs, k[1], k[2])
        several == {k \in Objects \X Fields : Cardinality(cands(k)) > 1}
        one(k) == IF cands(k) = {} THEN v[k[1]][k[2]]
                  ELSE CHOOSE t \in cands(k) : TRUE
    IN  {[o \in Objects |-> [f \in Fields |->
             IF <<o, f>> \in several THEN g[<<o, f>>] ELSE one(<<o, f>>)]] :
         g \in {h \in [several -> Texts] :
                   \A k \in several : h[k] \in cands(k)}}

\* the rows whose instance groups[ct_id][obj_id] does not exist
Orphans(groups, recs) ==
    {r \in recs : <<r.content_type_id, r.object_id>> \notin Keys(groups)}

\* The outcomes of the loop over recs: without an orphan row every row is
\* processed; with one the lookup raises KeyError after the rows iterated
\* before it (any set of the other rows) were processed.
ApplyLoop(v, groups, recs) ==
    IF Orphans(groups, recs) = {}
    THEN {[err |-> "none", vals |-> w] : w \in Overlays(v, groups, recs)}
    ELSE UNION {{[err |-> "KeyError", vals |-> w] :
                    w \in Overlays(v, groups, done)} :
                done \in SUBSET (recs \ Orphans(groups, recs))}

\* the rows, were the empty values not skipped
ObjTranslations_all(v, ct_id, obj_id, obj, lang) ==
    {Row(ct_id, obj_id, field, lang, v[obj][field]) :
        field \in _get_translatable_fields_names(ObjModel[obj])}

\* the rows new_translations gets for one instance
ObjTranslations(v, ct_id, obj_id, obj, lang) ==
    {Row(ct_id, obj_id, field, lang, v[obj][field]) :
        field \in {f \in _get_translatable_fields_names(ObjModel[obj]) :
                      v[obj][f] # ""}}

\* new_translations of update_translations and TranslationContext.update
NewTranslations(v, groups, lang) ==
    UNION {ObjTranslations(v, k[1], k[2], groups[k[1]][k[2]], lang) :
              k \in Keys(groups)}

\* _get_translations(groups, lang) evaluated on tbl
_get_translations(tbl, groups, lang_arg) ==
    LET std == _get_standard_language(lang_arg)
    IN  [err |-> std.err, lang |-> std.value,
         rows |-> IF std.err = "none" THEN Select(tbl, groups, std.value)
                  ELSE {}]

----------------------------------------------------------------------------
(* The calls *)

\* relation lookups
Rel_c == C
Rel_c_p == <<"c", "__", "p">>
Rel_p_c == <<"p", "__", "c">>
Rel_x == X

\* the arguments (entity, relations, lang) the calls are made with
Args(entity, relations, lang) ==
    [entity |-> entity, relations |-> relations, lang |-> lang]

CallArgs ==
    {Args(Instance("a1"), <<>>, None),
     Args(Instance("a1"), <<Rel_c>>, DE_AT),
     Args(Instance("a1"), <<Rel_c, Rel_c_p>>, DE_AT),
     Args(Iterable(<<>>), <<>>, DE_AT),
     Args(Iterable(<<"a1", "a2">>), <<Rel_c>>, DE_AT),
     Args(Iterable(<<"a1", "a1d">>), <<>>, DE_AT),
     Args(Iterable(<<"a1", "a1d">>), <<Rel_c>>, DE_AT),
     Args(Instance("b1s"), <<Rel_p_c>>, DE_AT),
     Args(Instance("a1"), <<Rel_x>>, DE_AT),
     Args(Instance("a2"), <<>>, FR)}

NoGroups == <<>>
NoArgs == Args(Iterable(<<>>), <<>>, None)
NoLang == <<>>

\* What `last` records of a call: the operation, the context it was called
\* on (0 for none), the arguments, the exception raised, the instance
\* groups the call built or used, the log of the insertions into them, the
\* statements issued against the Translation table, the standard language
\* code, and the call made before.
\* a statement sent to the database with the rows it returns, removes or
\* inserts
Stmt(name, rows) == [stmt |-> name, rows |-> rows]

\* the record of a call with the calls of _fill_entity its walk w made
Traced(w, outcome) == [outcome EXCEPT !.calls = w.calls]

Outcome(op, ctx, a, err, groups, visits, queries, result) ==
    [op |-> op, ctx |-> ctx, entity |-> a.entity, relations |-> a.relations,
     lang |-> a.lang, err |-> err, groups |-> groups, visits |-> visits,
     queries |-> queries, result |-> result, calls |-> <<>>,
     prev |-> [op |-> last.op, ctx |-> last.ctx, entity |-> last.entity,
               relations |-> last.relations, lang |-> last.lang,
               err |-> last.err]]

\* the caller assigns obj.name = text
SetAttr(obj, text) ==
    /\ Exists(prefetched, obj)
    /\ vals[obj]["name"] # text
    /\ vals' = [vals EXCEPT ![obj]["name"] = text]
    /\ last' = Outcome("setattr", 0, NoArgs, "none", NoGroups, <<>>, <<>>,
                       NoLang)
    /\ steps' = steps + 1
    /\ UNCHANGED <<languages, prefetched, store, ctxs>>

\* apply_translations(entity, *relations, lang=lang)
apply_translations(a) ==
    /\ LET hierarchy == _get_relations_hierarchy(a.relations)
           w == _get_instance_groups(prefetched, a.entity, hierarchy, FALSE)
           t == _get_translations(store, w.groups, a.lang)
       IN  /\ prefetched' = w.prefetched
           /\ IF w.err # "none"
              THEN /\ vals' = vals
                   /\ last' = Traced(w,
                              Outcome("apply", 0, a, w.err, NoGroups,
                                      w.visits, <<>>, NoLang))
              ELSE IF t.err # "none"
              THEN /\ vals' = vals
                   /\ last' = Traced(w,
                              Outcome("apply", 0, a, t.err, w.groups,
                                      w.visits, <<>>, NoLang))
              ELSE \E out \in ApplyLoop(vals, w.groups, t.rows) :
                       /\ vals' = out.vals
                       /\ last' = Traced(w,
                                  Outcome("apply", 0, a, out.err, w.groups,
                                          w.visits,
                                          <<Stmt("select", t.rows)>>, t.lang))
    /\ steps' = steps + 1
    /\ UNCHANGED <<languages, store, ctxs>>

\* update_translations(entity, *relations, lang=lang); created tells
\* whether bulk_create succeeds.  The delete and the bulk_create are two
\* statements outside of any transaction.
update_translations(a, created) ==
    /\ LET std == _get_standard_language(a.lang)
           hierarchy == _get_relations_hierarchy(a.relations)
           w == _get_instance_groups(prefetched, a.entity, hierarchy, TRUE)
           new_translations == NewTranslations(vals, w.groups, std.value)
           removed == Select(store, w.groups, std.value)
           deleted == Delete(store, w.groups, std.value)
       IN  IF std.err # "none"
           THEN /\ created
                /\ UNCHANGED <<store, prefetched>>
                /\ last' = Outcome("update", 0, a, std.err, NoGroups, <<>>,
                                   <<>>, NoLang)
           ELSE IF w.err # "none"
           THEN /\ created
                /\ store' = store
                /\ prefetched' = w.prefetched
                /\ last' = Traced(w,
                           Outcome("update", 0, a, w.err, NoGroups, w.visits,
                                   <<>>, std.value))
           ELSE IF created
           THEN /\ store' = BulkCreate(deleted, new_translations)
                /\ prefetched' = w.prefetched
                /\ last' = Traced(w,
                           Outcome("update", 0, a, "none", w.groups, w.visits,
                                   IF new_translations = {}
                                   THEN <<Stmt("delete", removed)>>
                                   ELSE <<Stmt("delete", removed),
                                          Stmt("insert", new_translations)>>,
                                   std.value))
           ELSE /\ new_translations # {}
                /\ store' = deleted
                /\ prefetched' = w.prefetched
                /\ last' = Traced(w,
                           Outcome("update", 0, a, "DatabaseError", w.groups,
                                   w.visits,
                                   <<Stmt("delete", removed),
                                     Stmt("insert", new_translations)>>,
                                   std.value))
    /\ steps' = steps + 1
    /\ UNCHANGED <<languages, vals, ctxs>>

----------------------------------------------------------------------------
(* TranslationContext *)

\* self.translations: None, or a queryset with the rows it has fetched
NoTranslations == [none |-> TRUE, rows |-> {}]

CtxArgs(self) == Args(self.entity, self.relations, self.lang)

\* TranslationContext(entity, *relations, lang=lang)
TranslationContext(a) ==
    /\ LET hierarchy == _get_relations_hierarchy(a.relations)
           std == _get_standard_language(a.lang)
           w == _get_instance_groups(prefetched, a.entity, hierarchy, TRUE)
       IN  IF std.err # "none"
           THEN /\ UNCHANGED <<ctxs, prefetched>>
                /\ last' = Outcome("context", 0, a, std.err, NoGroups, <<>>,
                                   <<>>, NoLang)
           ELSE IF w.err # "none"
           THEN /\ ctxs' = ctxs
                /\ prefetched' = w.prefetched
                /\ last' = Traced(w,
                           Outcome("context", 0, a, w.err, NoGroups,
                                   w.visits, <<>>, std.value))
           ELSE /\ ctxs' = Append(ctxs, [entity |-> a.entity,
                                         relations |-> a.relations,
                                         hierarchy |-> hierarchy,
                                         lang |-> std.value,
                                         groups |-> w.groups,
                                         translations |-> NoTranslations])
                /\ prefetched' = w.prefetched
                /\ last' = Traced(w,
                           Outcome("context", Len(ctxs) + 1, a, "none",
                                   w.groups, w.visits, <<>>, std.value))
    /\ steps' = steps + 1
    /\ UNCHANGED <<languages, vals, store>>

\* the test, were apply() to fetch on every call
Fetches_always(self) == TRUE

\* `if self.translations is None`: the call creates the queryset, and the
\* iteration evaluates it
Fetches(self) == self.translations.none

\* TranslationContext.apply() of the i-th context
apply(i) ==
    /\ i \in 1..Len(ctxs)
    /\ LET self == ctxs[i]
           t == _get_translations(store, self.groups, self.lang)
           fetch == Fetches(self)
           rows == IF fetch THEN t.rows ELSE self.translations.rows
       IN  IF fetch /\ t.err # "none"
           THEN /\ UNCHANGED <<vals, ctxs>>
                /\ last' = Outcome("ctx.apply", i, CtxArgs(self), t.err,
                                   self.groups, <<>>, <<>>, self.lang)
           ELSE /\ ctxs' = [ctxs EXCEPT ![i].translations =
                                            [none |-> FALSE, rows |-> rows]]
                /\ \E out \in ApplyLoop(vals, self.groups, rows) :
                       /\ vals' = out.vals
                       /\ last' = Outcome("ctx.apply", i, CtxArgs(self),
                                          out.err, self.groups, <<>>,
                                          IF fetch
                                          THEN <<Stmt("select", rows)>>
                                          ELSE <<>>, self.lang)
    /\ steps' = steps + 1
    /\ UNCHANGED <<languages, prefetched, store>>

\* self.delete(), were it to delete the rows the queryset has fetched
CtxDelete_fetched(tbl, self) ==
    LET keep == {r \in BagToSet(tbl) : r \notin self.translations.rows}
    IN  [r \in keep |-> tbl[r]]

\* self.delete(): the queryset deletes the rows its filter matches now,
\* whatever rows it has fetched before
CtxDelete(tbl, self) == Delete(tbl, self.groups, self.lang)

\* the assignment, were it to keep the queryset
Invalidated_kept(self) == self

\* self.translations = None
Invalidated(self) == [self EXCEPT !.translations = NoTranslations]

\* TranslationContext.delete() of the i-th context
delete(i) ==
    /\ i \in 1..Len(ctxs)
    /\ LET self == ctxs[i]
           t == _get_translations(store, self.groups, self.lang)
           removed == Select(store, self.groups, self.lang)
       IN  IF self.translations.none /\ t.err # "none"
           THEN /\ UNCHANGED <<store, ctxs>>
                /\ last' = Outcome("ctx.delete", i, CtxArgs(self), t.err,
                                   self.groups, <<>>, <<>>, self.lang)
           ELSE /\ store' = CtxDelete(store, self)
                /\ ctxs' = [ctxs EXCEPT ![i] = Invalidated(self)]
                /\ last' = Outcome("ctx.delete", i, CtxArgs(self), "none",
                                   self.groups, <<>>,
                                   <<Stmt("delete", removed)>>, self.lang)
    /\ steps' = steps + 1
    /\ UNCHANGED <<languages, vals, prefetched>>

\* TranslationContext.update() of the i-th context; created tells whether
\* bulk_create succeeds
update(i, created) ==
    /\ i \in 1..Len(ctxs)
    /\ LET self == ctxs[i]
           new_translations == NewTranslations(vals, self.groups, self.lang)
           t == _get_translations(store, self.groups, self.lang)
           removed == Select(store, self.groups, self.lang)
           deleted == CtxDelete(store, self)
       IN  IF self.translations.none /\ t.err # "none"
           THEN /\ created
                /\ UNCHANGED <<store, ctxs>>
                /\ last' = Outcome("ctx.update", i, CtxArgs(self), t.err,
                                   self.groups, <<>>, <<>>, self.lang)
           ELSE /\ ctxs' = [ctxs EXCEPT ![i] = Invalidated(self)]
                /\ IF created
                   THEN /\ store' = BulkCreate(deleted, new_translations)
                        /\ last' = Outcome("ctx.update", i, CtxArgs(self),
                                           "none", self.groups, <<>>,
                                           IF new_translations = {}
                                           THEN <<Stmt("delete", removed)>>
                                           ELSE <<Stmt("delete", removed),
                                                  Stmt("insert",
                                                       new_translations)>>,
                                           self.lang)
                   ELSE /\ new_translations # {}
                        /\ store' = deleted
                        /\ last' = Outcome("ctx.update", i, CtxArgs(self),
                                           "DatabaseError", self.groups, <<>>,
                                           <<Stmt("delete", removed),
                                             Stmt("insert",
                                                  new_translations)>>,
                                           self.lang)
    /\ steps' = steps + 1
    /\ UNCHANGED <<languages, vals, prefetched>>

----------------------------------------------------------------------------
(* The specification of the calls *)

\* rows the Translation table may hold before the first call: of the row
\* A 1 in two languages and for an attribute that is not translatable, and
\* of the row A 2
Seeds ==
    {Row(7, "1", "name", DE, "y"),
     Row(7, "2", "name", DE, "y"),
     Row(7, "1", "name", EN, "y"),
     Row(7, "1", "slug", DE, "y")}

\* the attribute values the instances were fetched with
InitVals ==
    {[o \in Objects |-> [f \in Fields |-> IF f = "name" /\ o \in blank
                                          THEN "" ELSE "x"]] :
        blank \in {{}, {"a1"}}}

InitLast ==
    [op |-> "init", ctx |-> 0, entity |-> NoArgs.entity,
     relations |-> NoArgs.relations, lang |-> NoArgs.lang, err |-> "none",
     groups |-> NoGroups, visits |-> <<>>, queries |-> <<>>,
     result |-> NoLang, calls |-> <<>>,
     prev |-> [op |-> "init", ctx |-> 0, entity |-> NoArgs.entity,
               relations |-> NoArgs.relations, lang |-> NoArgs.lang,
               err |-> "none"]]

Init ==
    /\ languages = LANGUAGES
    /\ vals \in InitVals
    /\ prefetched = {<<"a1", C>>, <<"a2", C>>}
    /\ store = SetToBag(Seeds)
    /\ ctxs = <<>>
    /\ last = InitLast
    /\ steps = 0

Next ==
    /\ steps < MaxSteps
    /\ \/ \E obj \in {o \in Objects : IsTranslatable(ObjModel[o])},
             text \in Texts : SetAttr(obj, text)
       \/ \E a \in CallArgs : apply_translations(a)
       \/ \E a \in CallArgs, created \in BOOLEAN :
              update_translations(a, created)
       \/ \E a \in CallArgs : TranslationContext(a)
       \/ \E i \in 1..Len(ctxs) : apply(i)
       \/ \E i \in 1..Len(ctxs) : delete(i)
       \/ \E i \in 1..Len(ctxs), created \in BOOLEAN : update(i, created)

Spec == Init /\ [][Next]_vars

----------------------------------------------------------------------------
(* The specification of the language normalizer: any setting, any code *)

\* the symbols of the codes: a letter and the accent separator
Symbols == {"e", "-"}

\* the codes of up to MaxTagLen symbols, and the active language
Codes == UNION {[1..n -> Symbols] : n \in 0..MaxTagLen} \cup {get_language}

InitLanguages ==
    /\ languages \in UNION {[1..n -> Codes] : n \in 0..MaxLanguages}
    /\ vals = [o \in Objects |-> [f \in Fields |-> "x"]]
    /\ prefetched = {<<"a1", C>>, <<"a2", C>>}
    /\ store = SetToBag({})
    /\ ctxs = <<>>
    /\ last = InitLast
    /\ steps = 0

\* a call _get_standard_language(lang)
get_standard_language(lang) ==
    /\ last.op = "init"
    /\ LET std == _get_standard_language(lang)
       IN  last' = Outcome("language", 0, Args(NoArgs.entity, <<>>, lang),
                           std.err, NoGroups, <<>>, <<>>, std.value)
    /\ steps' = steps + 1
    /\ UNCHANGED <<languages, vals, prefetched, store, ctxs>>

NextLanguages == \E lang \in Codes \cup {None} : get_standard_language(lang)

SpecLanguages == InitLanguages /\ [][NextLanguages]_vars

----------------------------------------------------------------------------
(* The specification of the sessions: two contexts over overlapping        *)
(* entities have been constructed, and their methods interleave with the   *)
(* calls of update_translations and apply_translations.                    *)

\* the context TranslationContext(a) constructs with the prefetch caches pf
ContextOf(pf, a) ==
    [entity |-> a.entity, relations |-> a.relations,
     hierarchy |-> _get_relations_hierarchy(a.relations),
     lang |-> _get_standard_language(a.lang).value,
     groups |-> _get_instance_groups(
                    pf, a.entity, _get_relations_hierarchy(a.relations),
                    TRUE).groups,
     translations |-> NoTranslations]

\* the arguments the two contexts were constructed with
SessionArgs ==
    <<Args(Instance("a1"), <<Rel_c>>, DE_AT),
      Args(Iterable(<<"a1", "a2">>), <<>>, DE_AT)>>

CallArgsOfSessions ==
    {Args(Instance("a1"), <<>>, None),
     Args(Iterable(<<"a1", "a2">>), <<Rel_c>>, DE_AT)}

InitSessions ==
    /\ languages = LANGUAGES
    /\ vals = [o \in Objects |-> [f \in Fields |-> "x"]]
    /\ prefetched = {<<"a1", C>>, <<"a2", C>>}
    /\ store \in {SetToBag({}), SetToBag(Seeds)}
    /\ ctxs = [i \in 1..2 |-> ContextOf(prefetched, SessionArgs[i])]
    /\ last = [InitLast EXCEPT !.op = "context", !.ctx = 2,
                               !.entity = ctxs[2].entity,
                               !.lang = DE_AT, !.groups = ctxs[2].groups,
                               !.result = ctxs[2].lang,
                               !.prev.op = "context", !.prev.ctx = 1,
                               !.prev.entity = ctxs[1].entity,
                               !.prev.relations = ctxs[1].relations,
                               !.prev.lang = DE_AT]
    /\ steps = 0

NextSessions ==
    /\ steps < MaxSessionSteps
    /\ \/ \E obj \in {"a1", "a2", "b1"}, text \in Texts : SetAttr(obj, text)
       \/ \E a \in CallArgsOfSessions : apply_translations(a)
       \/ \E a \in CallArgsOfSessions, created \in BOOLEAN :
              update_translations(a, created)
       \/ \E i \in 1..Len(ctxs) : apply(i)
       \/ \E i \in 1..Len(ctxs) : delete(i)
       \/ \E i \in 1..Len(ctxs), created \in BOOLEAN : update(i, created)

SpecSessions == InitSessions /\ [][NextSessions]_vars

----------------------------------------------------------------------------
(* The specification of one session: a context has been constructed and    *)
(* applied, and its methods interleave with assignments to the fields and  *)
(* with a call of update_translations.                                     *)

ContextArgs == Args(Instance("a1"), <<Rel_c>>, DE_AT)

CallArgsOfContext == {Args(Instance("a1"), <<>>, DE_AT)}

\* the state after `context = TranslationContext(a1, 'c', lang='de-at')`
\* and `context.apply()`
InitContext ==
    /\ languages = LANGUAGES
    /\ prefetched = {<<"a1", C>>, <<"a2", C>>}
    /\ store = SetToBag(Seeds)
    /\ LET self == ContextOf(prefetched, ContextArgs)
           rows == _get_translations(store, self.groups, self.lang).rows
       IN  /\ ctxs = <<[self EXCEPT !.translations =
                                        [none |-> FALSE, rows |-> rows]]>>
           /\ vals \in {out.vals :
                            out \in ApplyLoop(
                                       [o \in Objects |->
                                            [f \in Fields |-> "x"]],
                                       self.groups, rows)}
           /\ last = [InitLast EXCEPT
                          !.op = "ctx.apply", !.ctx = 1,
                          !.entity = self.entity,
                          !.relations = self.relations,
                          !.lang = self.lang, !.groups = self.groups,
                          !.queries = <<Stmt("select", rows)>>,
                          !.result = self.lang,
                          !.prev.op = "context", !.prev.ctx = 1,
                          !.prev.entity = self.entity,
                          !.prev.relations = self.relations,
                          !.prev.lang = DE_AT]
    /\ steps = 0

NextContext ==
    /\ steps < MaxContextSteps
    /\ \/ \E obj \in {"a1", "b1"}, text \in Texts : SetAttr(obj, text)
       \/ \E a \in CallArgsOfContext, created \in BOOLEAN :
              update_translations(a, created)
       \/ apply(1)
       \/ delete(1)
       \/ \E created \in BOOLEAN : update(1, created)

SpecContext == InitContext /\ [][NextContext]_vars

----------------------------------------------------------------------------
(* The specification of the walk: calls of apply_translations and          *)
(* update_translations with entities and relations of every kind.          *)

Rel_n == N
Rel_c_p_c == <<"c", "__", "p", "__", "c">>
Rel_c_x == <<"c", "__", "x">>
Rel_n_x == <<"n", "__", "x">>

\* the entity arguments: instances, collections with and without
\* duplicates, an empty collection, a collection of two models, collections
\* with an item that is no model instance, and an object that is neither
WalkEntities ==
    {Instance("a1"), Instance("a2"), Instance("b1s"), Instance("n1"),
     Iterable(<<>>), Iterable(<<"a1", "a2">>), Iterable(<<"a1", "a1d">>),
     Iterable(<<"a1", "b1">>), Iterable(<<"a1", "junk">>),
     Iterable(<<"junk">>), Other}

WalkRelations ==
    {<<>>, <<Rel_c>>, <<Rel_c_p>>, <<Rel_c, Rel_c_p>>, <<Rel_p_c>>,
     <<Rel_c_p_c>>, <<Rel_n>>, <<Rel_x>>, <<Rel_c_x>>, <<Rel_n_x>>}

WalkArgs ==
    {Args(entity, relations, DE_AT) :
         entity \in WalkEntities, relations \in WalkRelations}

\* the rows of Seeds, and a row of the row B 1
InitWalk ==
    /\ languages = LANGUAGES
    /\ vals = [o \in Objects |-> [f \in Fields |-> "x"]]
    /\ prefetched = {<<"a1", C>>, <<"a2", C>>}
    /\ store = SetToBag(Seeds \cup {Row(8, "1", "name", DE, "y")})
    /\ ctxs = <<>>
    /\ last = InitLast
    /\ steps = 0

NextWalk ==
    /\ steps < MaxWalkSteps
    /\ \/ \E a \in WalkArgs : apply_translations(a)
       \/ \E a \in WalkArgs, created \in BOOLEAN :
              update_translations(a, created)

SpecWalk == InitWalk /\ [][NextWalk]_vars

----------------------------------------------------------------------------
(* The specification of the relations hierarchy: one call of               *)
(* _get_relations_hierarchy with up to MaxPaths relation lookups.          *)

\* the lookups a caller passes: relations, nested relations, the empty
\* string, and lookups with a trailing, a leading and a doubled separator
RelationLookups ==
    {Rel_c, P, Rel_c_p, Rel_p_c, Rel_c_p_c,
     <<>>, <<"c", "__">>, <<"__", "p">>, <<"c", "__", "__", "p">>}

RelationLists == UNION {[1..n -> RelationLookups] : n \in 0..MaxPaths}

InitHierarchy ==
    /\ languages = LANGUAGES
    /\ vals = [o \in Objects |-> [f \in Fields |-> "x"]]
    /\ prefetched = {<<"a1", C>>, <<"a2", C>>}
    /\ store = SetToBag({})
    /\ ctxs = <<>>
    /\ last \in {[InitLast EXCEPT !.relations = relations] :
                     relations \in RelationLists}
    /\ steps = 0

\* the call _get_relations_hierarchy(*last.relations)
get_relations_hierarchy ==
    /\ last.op = "init"
    /\ last' = Outcome("hierarchy", 0,
                       Args(NoArgs.entity, last.relations, NoArgs.lang),
                       "none", NoGroups, <<>>, <<>>,
                       _get_relations_hierarchy(last.relations))
    /\ steps' = steps + 1
    /\ UNCHANGED <<languages, vals, prefetched, store, ctxs>>

NextHierarchy == get_relations_hierarchy

SpecHierarchy == InitHierarchy /\ [][NextHierarchy]_vars

----------------------------------------------------------------------------
(* Properties *)

\* the instance the groups hold under the key k
Entry(groups, k) == groups[k[1]][k[2]]

\* the rows of tbl in the language lang that belong to a key of groups
RowsOf(tbl, groups, lang) ==
    {r \in BagToSet(tbl) :
        /\ r.language = lang
        /\ <<r.content_type_id, r.object_id>> \in Keys(groups)}

\* the step is a call of one of the operations ops
Calls(ops) == steps' = steps + 1 /\ last'.op \in ops

\* the call of the step has the arguments of the call before it
SameArguments ==
    /\ last'.entity = last.entity
    /\ last'.relations = last.relations
    /\ last'.lang = last.lang

\* C1: round trip.  When update_translations(e, paths, lang=L) has returned
\* and apply_translations(e, paths, lang=L) is called next, every
\* translatable field of every instance of the instance groups keeps the
\* value it had when update_translations was called.
RoundTrip ==
    [][(/\ last.op = "update" /\ last.err = "none"
        /\ Calls({"apply"}) /\ SameArguments)
       => \A k \in Keys(last.groups) :
              \A f \in _get_translatable_fields_names(
                           ObjModel[Entry(last.groups, k)]) :
                  vals'[Entry(last.groups, k)][f]
                      = vals[Entry(last.groups, k)][f]]_vars

\* an apply_translations has followed an update_translations of the same
\* arguments that replaced a row of another text by the value of the field
RoundTripWitness ==
    /\ last.op = "apply" /\ last.err = "none"
    /\ last.prev.op = "update" /\ last.prev.err = "none"
    /\ last.prev.entity = last.entity
    /\ last.prev.relations = last.relations
    /\ last.prev.lang = last.lang
    /\ Row(7, "2", "name", DE, "y") \in BagToSet(store)
    /\ \E k \in Keys(last.groups) :
           /\ k[1] = 7 /\ k[2] = "1"
           /\ vals[Entry(last.groups, k)]["name"] = "x"
           /\ Row(7, "1", "name", last.result, "x") \in BagToSet(store)

\* C2: replacement completeness.  After update_translations has returned,
\* the stored rows of the language of the call that belong to a key of the
\* instance groups are exactly one row per instance and translatable field
\* whose value is not empty, with that value as text.
ReplacementComplete ==
    (last.op = "update" /\ last.err = "none")
    => /\ RowsOf(store, last.groups, last.result)
              = {Row(kf[1][1], kf[1][2], kf[2], last.result,
                     vals[Entry(last.groups, kf[1])][kf[2]]) :
                    kf \in {x \in Keys(last.groups) \X Fields :
                        /\ x[2] \in _get_translatable_fields_names(
                                        ObjModel[Entry(last.groups, x[1])])
                        /\ vals[Entry(last.groups, x[1])][x[2]] # ""}}
       /\ \A r \in RowsOf(store, last.groups, last.result) : store[r] = 1

\* update_translations has returned for an instance whose field is empty,
\* and no row of that instance is stored in the language any more
ReplacementCompleteWitness ==
    /\ last.op = "update" /\ last.err = "none"
    /\ Row(7, "2", "name", DE, "y") \in BagToSet(store)
    /\ \E k \in Keys(last.groups) :
           /\ vals[Entry(last.groups, k)]["name"] = ""
           /\ \A r \in BagToSet(store) :
                  ~(/\ r.content_type_id = k[1] /\ r.object_id = k[2]
                    /\ r.language = last.result)

\* C3: frame of the write path.  update_translations and
\* TranslationContext.update leave every stored row unchanged whose key is
\* not in the instance groups of the call or whose language is not the
\* language of the call.
WriteFrame ==
    [][Calls({"update", "ctx.update"})
       => \A r \in BagToSet(store) \cup BagToSet(store') :
              (\/ <<r.content_type_id, r.object_id>> \notin Keys(last'.groups)
               \/ r.language # last'.result)
              => CopiesIn(r, store') = CopiesIn(r, store)]_vars

\* C4: empty-collection short-circuit.  apply_translations and
\* update_translations of an empty collection return normally with empty
\* instance groups, change no field, issue no statement against the
\* Translation table and leave its rows as they were.
EmptyCollectionNoOp ==
    [][(Calls({"apply", "update"}) /\ last'.entity = Iterable(<<>>))
       => /\ last'.err = "none"
          /\ Keys(last'.groups) = {}
          /\ vals' = vals
          /\ last'.queries = <<>>
          /\ store' = store]_vars

\* the relations a walk of the arguments of the call that does not insist
\* on prefetching would load
WouldLoad ==
    _get_instance_groups(prefetched, last'.entity,
                         _get_relations_hierarchy(last'.relations),
                         FALSE).prefetched \ prefetched

\* C5: strict-mode enforcement.  When update_translations or the
\* constructor of TranslationContext, called in a supported language,
\* reaches a to-many relation that is not prefetched (the relation the walk
\* of apply_translations would load), the call raises RuntimeError; and a
\* call that raises it has loaded no relation, has created no context and
\* has left the Translation table as it was.
StrictPrefetch ==
    [][(Calls({"update", "context"}) /\ last'.err # "ValueError")
       => /\ WouldLoad # {} <=> last'.err = "RuntimeError"
          /\ last'.err = "RuntimeError"
             => /\ prefetched' = prefetched
                /\ store' = store
                /\ ctxs' = ctxs]_vars

\* update_translations has raised RuntimeError at the second level of the
\* hierarchy while rows of the language are stored
StrictPrefetchWitness ==
    /\ last.op = "update" /\ last.err = "RuntimeError"
    /\ last.relations = <<Rel_p_c>>
    /\ <<"a1d", C>> \notin prefetched
    /\ Row(7, "1", "name", DE, "y") \in BagToSet(store)

\* C6: atomic replacement.  When bulk_create fails in update_translations
\* or TranslationContext.update, the Translation table is left as it was
\* before the call.
AtomicReplacement ==
    [][(Calls({"update", "ctx.update"}) /\ last'.err = "DatabaseError")
       => store' = store]_vars

\* the key of an insertion into the instance groups
VisitKey(v) == <<v.content_type_id, v.object_id>>

\* the instance the first insertion under the key k inserted
FirstVisit(visits, k) ==
    visits[CHOOSE i \in 1..Len(visits) :
               /\ VisitKey(visits[i]) = k
               /\ \A j \in 1..(i - 1) : VisitKey(visits[j]) # k].obj

\* the instance the last insertion under the key k inserted
LastVisit(visits, k) ==
    visits[CHOOSE i \in 1..Len(visits) :
               /\ VisitKey(visits[i]) = k
               /\ \A j \in (i + 1)..Len(visits) : VisitKey(visits[j]) # k].obj

\* the calls that return the instance groups of a walk
Walked ==
    /\ last.op \in {"apply", "update", "context"}
    /\ last.err \in {"none", "KeyError", "DatabaseError"}

\* C7 as stated: the instance groups have one entry per (type, identity)
\* that was visited, and the entry holds the instance of the first visit.
FirstVisitKept ==
    Walked
    => /\ Keys(last.groups) = {VisitKey(last.visits[i]) :
                                  i \in 1..Len(last.visits)}
       /\ \A k \in Keys(last.groups) :
              Entry(last.groups, k) = FirstVisit(last.visits, k)

\* C7 amended: the instance groups have one entry per (type, identity)
\* that was visited, and the entry holds the instance of the last visit.
LastVisitKept ==
    Walked
    => /\ Keys(last.groups) = {VisitKey(last.visits[i]) :
                                  i \in 1..Len(last.visits)}
       /\ \A k \in Keys(last.groups) :
              Entry(last.groups, k) = LastVisit(last.visits, k)

\* a walk has visited two instances of the same (type, identity)
LastVisitKeptWitness ==
    /\ Walked
    /\ \E i, j \in 1..Len(last.visits) :
           /\ i < j
           /\ VisitKey(last.visits[i]) = VisitKey(last.visits[j])
           /\ last.visits[i].obj # last.visits[j].obj
           /\ Entry(last.groups, VisitKey(last.visits[i]))
                  = last.visits[j].obj

\* C8: fallback and frame of the read path.  apply_translations changes a
\* field of an instance only if the instance is in the instance groups,
\* the field is translatable and a row of the key, the field and the
\* language is stored, and then to the text of such a row; when it
\* returns, every translatable field with such a row holds the text of one.
ApplyFrame ==
    [][Calls({"apply"})
       => \A o \in Objects, f \in Fields :
              LET texts == {r.text : r \in {q \in RowsOf(store, last'.groups,
                                                          last'.result) :
                               /\ Entry(last'.groups, <<q.content_type_id,
                                                        q.object_id>>) = o
                               /\ q.field = f
                               /\ f \in _get_translatable_fields_names(
                                            ObjModel[o])}}
              IN  /\ vals'[o][f] # vals[o][f] => vals'[o][f] \in texts
                  /\ (last'.err = "none" /\ texts # {})
                     => vals'[o][f] \in texts]_vars

\* apply_translations has overlaid the name of one instance and has left
\* the name of another instance of the groups, which has no row, and the
\* attribute that is not translatable
ApplyFrameWitness ==
    /\ last.op = "apply" /\ last.err = "none"
    /\ last.groups = (7 :> ("1" :> "a1")) @@ (8 :> ("1" :> "b1"))
    /\ vals["a1"]["name"] = "y" /\ vals["a1"]["slug"] = "x"
    /\ vals["b1"]["name"] = "x"
    /\ Row(7, "1", "slug", DE, "y") \in BagToSet(store)
    /\ RowsOf(store, 8 :> ("1" :> "b1"), DE) = {}

\* the part of a language code before the first "-"
BaseCode(lang) ==
    IF \E i \in 1..Len(lang) : lang[i] = "-"
    THEN SubSeq(lang, 1, (CHOOSE i \in 1..Len(lang) :
                              /\ lang[i] = "-"
                              /\ \A j \in 1..(i - 1) : lang[j] # "-") - 1)
    ELSE lang

Supported(lang) == \E i \in 1..Len(languages) : languages[i] = lang

\* C9: language normalization.  _get_standard_language returns the
\* requested code (the active language when none is requested) if the
\* setting lists it, wherever its base code is listed; otherwise its base
\* code if the setting lists that; otherwise it raises ValueError for the
\* code.  With en, en-gb and de supported, en-gb yields en-gb, de-at
\* yields de and fr fails.
LanguageNormalization ==
    /\ last.op = "language"
       => LET lang == IF last.lang \in {None, <<>>} THEN get_language
                      ELSE last.lang
          IN  IF Supported(lang)
              THEN last.err = "none" /\ last.result = lang
              ELSE IF Supported(BaseCode(lang))
                   THEN last.err = "none" /\ last.result = BaseCode(lang)
                   ELSE last.err = "ValueError" /\ last.result = lang
    /\ \A langs \in {<<EN, EN_GB, DE>>, <<EN_GB, EN, DE>>, <<DE, EN_GB, EN>>} :
           /\ StandardLanguage(langs, EN_GB) = [err |-> "none", value |-> EN_GB]
           /\ StandardLanguage(langs, DE_AT) = [err |-> "none", value |-> DE]
           /\ StandardLanguage(langs, FR) = [err |-> "ValueError", value |-> FR]

\* a code was normalized to itself although its base code is listed
\* before it
LanguageNormalizationWitness ==
    /\ last.op = "language" /\ last.err = "none"
    /\ last.result = last.lang
    /\ BaseCode(last.lang) # last.lang
    /\ \E i, j \in 1..Len(languages) :
           i < j /\ languages[i] = BaseCode(last.lang)
                 /\ languages[j] = last.lang

\* C10: natural-key uniqueness.  No two stored rows share (type, identity,
\* field, language).
NaturalKeyUnique ==
    /\ \A r \in BagToSet(store) : store[r] = 1
    /\ \A r1, r2 \in BagToSet(store) :
           NaturalKey(r1) = NaturalKey(r2) => r1 = r2

\* the two contexts have written the field of an instance they share, one
\* after the other and with different values
NaturalKeyUniqueWitness ==
    /\ last.op = "ctx.update" /\ last.err = "none"
    /\ last.prev.op = "setattr"
    /\ Len(ctxs) = 2 /\ last.ctx = 2
    /\ vals["a1"]["name"] = "y"
    /\ Row(7, "1", "name", DE, "x") \notin BagToSet(store)
    /\ Row(7, "1", "name", DE, "y") \in BagToSet(store)
    /\ Row(8, "1", "name", DE, "x") \in BagToSet(store)

----------------------------------------------------------------------------
(* The relations hierarchy *)

Range(seq) == {seq[i] : i \in 1..Len(seq)}

\* the segments of a lookup, and the lookups none of whose segments is empty
Parts(relation) == Split(relation, LOOKUP_SEP)
WellFormed(relation) ==
    \A i \in 1..Len(Parts(relation)) : Parts(relation)[i] # <<>>

\* the non-empty prefixes of the paths of some lookups
Prefixes(relations) ==
    UNION {{SubSeq(Parts(r), 1, n) : n \in 1..Len(Parts(r))} :
               r \in Range(relations)}

\* the nodes of a hierarchy, each with the path that leads to it
RECURSIVE NodeList(_, _, _)
NodeList(hierarchy, prefix, i) ==
    IF i > Len(hierarchy) THEN <<>>
    ELSE LET path == Append(prefix, hierarchy[i].name)
         IN  <<[path |-> path, included |-> hierarchy[i].included]>>
             \o NodeList(hierarchy[i].relations, path, 1)
             \o NodeList(hierarchy, prefix, i + 1)

\* h1 == h2 of two dictionaries: the same keys with equal values, in
\* whatever order they were inserted
RECURSIVE DictEq(_, _)
DictEq(h1, h2) ==
    /\ Len(h1) = Len(h2)
    /\ \A i \in 1..Len(h1) : \E j \in 1..Len(h2) :
           /\ h1[i].name = h2[j].name
           /\ h1[i].included = h2[j].included
           /\ DictEq(h1[i].relations, h2[j].relations)

\* C11: the hierarchy built from well-formed lookups has exactly one node
\* per distinct prefix of the requested paths, a node is included if and
\* only if a requested path ends at it, every list of the same set of
\* lookups builds an equal hierarchy, and no lookup builds the empty one.
HierarchyConstruction ==
    (last.op = "hierarchy"
     /\ \A r \in Range(last.relations) : WellFormed(r))
    => LET nodes == NodeList(last.result, <<>>, 1)
       IN  /\ \A i, j \in 1..Len(nodes) :
                  nodes[i].path = nodes[j].path => i = j
           /\ {n.path : n \in Range(nodes)} = Prefixes(last.relations)
           /\ \A n \in Range(nodes) :
                  n.included
                  <=> \E r \in Range(last.relations) : Parts(r) = n.path
           /\ \A relations \in RelationLists :
                  Range(relations) = Range(last.relations)
                  => DictEq(_get_relations_hierarchy(relations),
                            last.result)
           /\ (last.relations = <<>> => last.result = <<>>)

\* c__p and then c were requested: one node c, included, with the one
\* included child p
HierarchyConstructionWitness ==
    /\ last.op = "hierarchy"
    /\ last.relations = <<Rel_c_p, Rel_c>>
    /\ last.result =
           <<[name |-> C, included |-> TRUE,
              relations |-> <<[name |-> P, included |-> TRUE,
                               relations |-> <<>>]>>]>>

\* C12: a lookup with an empty segment makes the call fail.
EmptySegmentRejected ==
    (last.op = "hierarchy"
     /\ \E r \in Range(last.relations) : ~WellFormed(r))
    => last.err # "none"

----------------------------------------------------------------------------
(* The walk *)

\* the model a relation of a model leads to
Target(model, relation) ==
    IF model = "A" /\ relation = C THEN "B"
    ELSE IF model = "B" /\ relation = P THEN "A"
    ELSE IF model = "A" /\ relation = N THEN "N"
    ELSE NoModel

\* the path names, at some depth, a relation the model at that depth does
\* not have
RECURSIVE UnknownPath(_, _)
UnknownPath(model, parts) ==
    /\ parts # <<>>
    /\ \/ Head(parts) \notin ModelFieldNames(model)
       \/ UnknownPath(Target(model, Head(parts)), Tail(parts))

\* the entity is a model instance or a collection of instances of one model
ValidEntity(entity) ==
    \/ entity.kind = "model"
    \/ /\ entity.kind = "iterable"
       /\ \A i \in 1..Len(entity.items) : entity.items[i] \in Objects
       /\ \A i, j \in 1..Len(entity.items) :
              ObjModel[entity.items[i]] = ObjModel[entity.items[j]]

\* the models an entity may be of: the model of its first instance, any
\* model when the collection is empty
RootModels(entity) ==
    IF entity.items = <<>> THEN Models ELSE {ObjModel[entity.items[1]]}

\* the instances the relation of the instance o holds
Related(o, relation) ==
    IF GetAttr(o, relation).kind \in {"manager", "model"}
    THEN Range(GetAttr(o, relation).items)
    ELSE {}

\* the instances the path parts leads to from the instances objs
RECURSIVE Follow(_, _)
Follow(objs, parts) ==
    IF parts = <<>> THEN objs
    ELSE Follow(UNION {Related(o, Head(parts)) : o \in objs}, Tail(parts))

\* the instances at the included positions: the root, and the ends of the
\* requested paths
AtIncluded(entity, relations) ==
    Range(entity.items)
    \cup UNION {Follow(Range(entity.items), Parts(r)) :
                   r \in Range(relations)}

\* the instances at the positions a requested path passes through before
\* its end
AtTraversed(entity, relations) ==
    UNION {UNION {Follow(Range(entity.items), SubSeq(Parts(r), 1, n)) :
                      n \in 1..(Len(Parts(r)) - 1)} :
               r \in Range(relations)}

\* the instances the instance groups hold
Entries(groups) == {Entry(groups, k) : k \in Keys(groups)}

\* the call of the step has walked the entity and passed the instance
\* groups on
WalkedNow ==
    /\ Calls({"apply", "update"})
    /\ last'.err \in {"none", "KeyError", "DatabaseError"}

\* the call of the step reaches, at an included position, an instance of a
\* model that is not Translatable
ReachesNotTranslatable ==
    \E o \in AtIncluded(last'.entity, last'.relations) :
        ~IsTranslatable(ObjModel[o])

\* C13: a call whose relations name, at some depth, a relation the model
\* at that depth does not have raises FieldDoesNotExist, whatever
\* instances the entity and its relations hold.
UnknownRelationRejected ==
    [][(/\ Calls({"apply", "update"})
        /\ ValidEntity(last'.entity)
        /\ ~ReachesNotTranslatable
        /\ \E r \in Range(last'.relations) :
               \A model \in RootModels(last'.entity) :
                   UnknownPath(model, Parts(r)))
       => last'.err = "FieldDoesNotExist"]_vars

InvalidEntityRejected ==
    [][(/\ Calls({"apply", "update"})
        /\ ~ValidEntity(last'.entity))
       => /\ last'.err = "TypeError"
          /\ last'.groups = NoGroups
          /\ \A i \in 1..Len(last'.visits) :
                 last'.visits[i].content_type_id
                     = ContentTypeId(ObjModel[last'.visits[i].obj])
          /\ vals' = vals
          /\ store' = store]_vars

\* C16: a call of apply_translations that has walked the entity sends one
\* statement, a select, and the rows it returns are the stored rows of the
\* standard language that belong to a key of the instance groups.
OneQuery ==
    [][(/\ Calls({"apply"})
        /\ last'.err \in {"none", "KeyError"})
       => /\ Len(last'.queries) = 1
          /\ last'.queries[1].stmt = "select"
          /\ last'.queries[1].rows
                 = RowsOf(store, last'.groups, last'.result)]_vars

\* C20: the instances a walk inserts are the instances at the included
\* positions; an instance that is at no included position is not in the
\* instance groups, keeps its fields in apply_translations, and
\* update_translations inserts rows of the keys of the instance groups
\* only; the instances below a position that is not included are inserted
\* all the same.
IncludedVersusTraversed ==
    [][WalkedNow
       => LET included == AtIncluded(last'.entity, last'.relations)
          IN  /\ {last'.visits[i].obj : i \in 1..Len(last'.visits)}
                     = included
              /\ Entries(last'.groups) \subseteq included
              /\ \A o \in Objects \ included : vals'[o] = vals[o]
              /\ \A i \in 1..Len(last'.queries) :
                     last'.queries[i].stmt = "insert"
                     => \A r \in last'.queries[i].rows :
                            <<r.content_type_id, r.object_id>>
                                \in Keys(last'.groups)]_vars

\* apply_translations(b1s, 'p__c') has passed through a1d, the instance
\* of b1s.p, and inserted b1d, the instance of a1d.c, but not a1d
IncludedVersusTraversedWitness ==
    /\ last.op = "apply"
    /\ last.err = "none"
    /\ last.entity = Instance("b1s")
    /\ last.relations = <<Rel_p_c>>
    /\ "a1d" \in AtTraversed(last.entity, last.relations)
    /\ "a1d" \notin Entries(last.groups)
    /\ "b1d" \in Entries(last.groups)
    /\ <<"a1d", C>> \in prefetched

----------------------------------------------------------------------------
(* The sessions *)

\* the rows the translatable fields of the instances of a context derive:
\* one per instance and field whose value v is not empty
Derived(v, self) ==
    {Row(kf[1][1], kf[1][2], kf[2], self.lang,
         v[Entry(self.groups, kf[1])][kf[2]]) :
        kf \in {x \in Keys(self.groups) \X Fields :
            /\ x[2] \in _get_translatable_fields_names(
                            ObjModel[Entry(self.groups, x[1])])
            /\ v[Entry(self.groups, x[1])][x[2]] # ""}}

\* the translatable fields of the instances of the context hold the texts
\* of the rows
Overlaid(v, self, rows) ==
    \A r \in rows :
        (/\ <<r.content_type_id, r.object_id>> \in Keys(self.groups)
         /\ r.field \in _get_translatable_fields_names(
                           ObjModel[Entry(self.groups,
                                          <<r.content_type_id,
                                            r.object_id>>)]))
        => v[Entry(self.groups, <<r.content_type_id, r.object_id>>)][r.field]
               = r.text

\* C17: apply() of a context that holds a fetched queryset sends no
\* statement and keeps the queryset; every apply() that returns leaves the
\* texts of the rows of the queryset in the fields; apply() right after an
\* apply() of the same context that has returned changes no field; and
\* only update() and delete() of the context drop its queryset.
SessionApply ==
    [][/\ Calls({"ctx.apply"})
          => LET i == last'.ctx
             IN  /\ ~ctxs[i].translations.none
                    => /\ last'.queries = <<>>
                       /\ ctxs'[i].translations = ctxs[i].translations
                 /\ last'.err = "none"
                    => /\ ~ctxs'[i].translations.none
                       /\ Overlaid(vals', ctxs[i],
                                   ctxs'[i].translations.rows)
                 /\ (last.op = "ctx.apply" /\ last.ctx = i
                     /\ last.err = "none")
                    => vals' = vals
       /\ \A i \in 1..Len(ctxs) :
              (~ctxs[i].translations.none /\ ctxs'[i].translations.none)
              => (last'.op \in {"ctx.update", "ctx.delete"}
                  /\ last'.ctx = i)]_vars

\* the context was applied, the store has changed since, and the context
\* has been applied again from the rows it had fetched: a1.name holds the
\* text y of the fetched row while the store holds x
SessionApplyWitness ==
    /\ last.op = "ctx.apply" /\ last.ctx = 1 /\ last.err = "none"
    /\ last.queries = <<>>
    /\ last.prev.op = "update"
    /\ Row(7, "1", "name", DE, "y") \in ctxs[1].translations.rows
    /\ Row(7, "1", "name", DE, "x") \in BagToSet(store)
    /\ vals["a1"]["name"] = "y"

\* C18: update() of a context leaves the context without queryset, and
\* when it returns the stored rows of the instance groups in the language
\* are the rows the fields derive; apply() right after an update() of the
\* same context that has returned fetches the stored rows and leaves in
\* every field the value update() has read from it.
SessionUpdate ==
    [][/\ Calls({"ctx.update"})
          => LET i == last'.ctx
             IN  /\ ctxs'[i].translations.none
                 /\ last'.err = "none"
                    => RowsOf(store', ctxs[i].groups, ctxs[i].lang)
                           = Derived(vals, ctxs[i])
       /\ (/\ Calls({"ctx.apply"})
           /\ last.op = "ctx.update" /\ last.ctx = last'.ctx
           /\ last.err = "none")
          => LET i == last'.ctx
             IN  /\ Len(last'.queries) = 1
                 /\ last'.queries[1].rows = Derived(vals, ctxs[i])
                 /\ ctxs'[i].translations.rows = Derived(vals, ctxs[i])
                 /\ vals' = vals]_vars

\* the context had fetched the row with the text y, a1.name was set to x,
\* update() has stored x, and apply() has left x in a1.name
SessionUpdateWitness ==
    /\ last.op = "ctx.apply" /\ last.ctx = 1 /\ last.err = "none"
    /\ last.prev.op = "ctx.update" /\ last.prev.err = "none"
    /\ steps = 3
    /\ vals["a1"]["name"] = "x"
    /\ Row(7, "1", "name", DE, "x") \in BagToSet(store)
    /\ Row(7, "1", "name", DE, "y") \notin BagToSet(store)
    /\ ctxs[1].translations.rows
           = {Row(7, "1", "name", DE, "x"), Row(8, "1", "name", DE, "x")}

\* C19: delete() of a context leaves no stored row of the language of the
\* context that belongs to a key of its instance groups, leaves every
\* other row as it was, and leaves the context without queryset.
SessionDiscard ==
    [][Calls({"ctx.delete"})
       => LET i == last'.ctx
              owned == RowsOf(store, ctxs[i].groups, ctxs[i].lang)
          IN  /\ RowsOf(store', ctxs[i].groups, ctxs[i].lang) = {}
              /\ BagToSet(store') \subseteq BagToSet(store)
              /\ \A r \in BagToSet(store) \ owned :
                     r \in BagToSet(store') /\ store'[r] = store[r]
              /\ ctxs'[i].translations.none]_vars

----------------------------------------------------------------------------
(* The rows without instance *)

\* the rows the loop of the call of the step iterates: the rows
\* apply_translations has selected, the rows the queryset of the context
\* holds
Iterated ==
    IF last'.op = "apply"
    THEN IF Len(last'.queries) = 1 THEN last'.queries[1].rows ELSE {}
    ELSE ctxs'[last'.ctx].translations.rows

\* C21: when the loop of apply_translations or of apply() iterates a row
\* whose (content type, object id) is no key of the instance groups, the
\* call returns without error and the fields hold the texts of the other
\* rows.
OrphansIgnored ==
    [][(/\ Calls({"apply", "ctx.apply"})
        /\ \E r \in Iterated :
               <<r.content_type_id, r.object_id>> \notin Keys(last'.groups))
       => /\ last'.err = "none"
          /\ Overlaid(vals', [groups |-> last'.groups], Iterated)]_vars

----------------------------------------------------------------------------
(* The termination of the walk *)

\* the depth of the hierarchy of some lookups: the length of the longest
\* requested path
Depth(relations) ==
    IF relations = <<>> THEN 0
    ELSE CHOOSE d \in {Len(Parts(r)) : r \in Range(relations)} :
             \A r \in Range(relations) : Len(Parts(r)) <= d

\* C22: a call that walks the entity returns; every call of _fill_entity
\* its walk has made is at most as deep as the hierarchy plus one, and was
\* entered through relations that are a prefix of a requested path.
WalkTerminates ==
    last.op \in {"apply", "update"}
    => \A i \in 1..Len(last.calls) :
           /\ Len(last.calls[i]) + 1 <= Depth(last.relations) + 1
           /\ last.calls[i] = <<>>
              \/ last.calls[i] \in Prefixes(last.relations)

\* apply_translations(a1, 'c__p__c') has returned: a1.c holds b1 and b1.p
\* is a1, and the walk has inserted b1 after it has passed through a1
\* twice, in four nested calls
WalkTerminatesWitness ==
    /\ last.op = "apply" /\ last.err = "none"
    /\ last.entity = Instance("a1")
    /\ last.relations = <<Rel_c_p_c>>
    /\ "a1" \in Follow({"a1"}, <<C, P>>)
    /\ last.calls = <<<<>>, <<C>>, <<C, P>>, <<C, P, C>>>>
    /\ [obj |-> "b1", content_type_id |-> 8, object_id |-> "1"]
           \in Range(last.visits)

----------------------------------------------------------------------------
(* The lazy load *)

\* the to-many relations the requested paths meet on an instance whose
\* cache pf does not hold them, each with the path that ends with it
Unloaded(pf, entity, relations) ==
    UNION {UNION {{[obj |-> o, relation |-> Parts(r)[n],
                    path |-> SubSeq(Parts(r), 1, n)] :
                      o \in {q \in Follow(Range(entity.items),
                                           SubSeq(Parts(r), 1, n - 1)) :
                                /\ GetAttr(q, Parts(r)[n]).kind = "manager"
                                /\ <<q, Parts(r)[n]>> \notin pf}} :
                      n \in 1..Len(Parts(r))} :
               r \in Range(relations)}

\* the entity is valid, every requested relation exists on its model, and
\* every instance at an included position is Translatable
WellTyped ==
    /\ ValidEntity(last'.entity)
    /\ ~ReachesNotTranslatable
    /\ \A r \in Range(last'.relations) :
           \E model \in RootModels(last'.entity) :
               ~UnknownPath(model, Parts(r))

\* C23: apply_translations never raises RuntimeError; when its walk
\* returns, every to-many relation it has met is loaded on the instance it
\* was met on, the instances the relation of that instance holds are
\* inserted when the path is a requested one, and when the call returns
\* the fields of those the instance groups hold are the texts of their
\* selected rows; update_translations with arguments that meet a relation
\* that is not loaded fails, with RuntimeError when nothing else is wrong
\* with the arguments, and changes no row.
LazyLoad ==
    [][/\ Calls({"apply"})
          => /\ last'.err # "RuntimeError"
             /\ last'.err \in {"none", "KeyError"}
                => LET unloaded == Unloaded(prefetched, last'.entity,
                                            last'.relations)
                       loaded ==
                           UNION {Related(u.obj, u.relation) :
                                      u \in {q \in unloaded :
                                                 \E r \in Range(last'.relations) :
                                                     Parts(r) = q.path}}
                   IN  /\ prefetched'
                              = prefetched
                                \cup {<<u.obj, u.relation>> : u \in unloaded}
                       /\ \A o \in loaded :
                              \E i \in 1..Len(last'.visits) :
                                  last'.visits[i].obj = o
                       /\ last'.err = "none"
                          => \A o \in loaded \cap Entries(last'.groups) :
                                 \A r \in last'.queries[1].rows :
                                     (/\ <<r.content_type_id, r.object_id>>
                                             \in Keys(last'.groups)
                                      /\ Entry(last'.groups,
                                               <<r.content_type_id,
                                                 r.object_id>>) = o
                                      /\ r.field
                                             \in _get_translatable_fields_names(
                                                     ObjModel[o]))
                                     => vals'[o][r.field] = r.text
       /\ (/\ Calls({"update"})
           /\ Unloaded(prefetched, last'.entity, last'.relations) # {})
          => /\ last'.err \notin {"none", "DatabaseError"}
             /\ WellTyped => last'.err = "RuntimeError"
             /\ store' = store]_vars

\* apply_translations(b1s, 'p__c') has loaded a1d.c, inserted the instance
\* b1d that a1d.c holds, and set its name to the text of the stored row
LazyLoadWitness ==
    /\ last.op = "apply" /\ last.err = "none"
    /\ last.entity = Instance("b1s")
    /\ last.relations = <<Rel_p_c>>
    /\ <<"a1d", C>> \in prefetched
    /\ Related("a1d", C) = {"b1d"}
    /\ Entry(last.groups, <<8, "1">>) = "b1d"
    /\ vals["b1d"]["name"] = "y"
    /\ Row(8, "1", "name", DE, "y") \in BagToSet(store)

====
